---------------------------- MODULE Spec2Model ----------------------------
(***************************************************************************)
(* Model of the vertex-tester batch dispatcher: the handler of the command *)
(* 'vertex-tester.generateTests' (src/src/extension.ts, version 1.1.0,     *)
(* lines 168-264) and the completion callbacks it hands to exec.           *)
(*                                                                         *)
(* One command execution is a batch.  The handler suspends once, at the    *)
(* await of the file dialog; everything after it runs on the single        *)
(* JavaScript thread without suspending, so exec callbacks and other       *)
(* handlers run only while no handler holds the thread (variable           *)
(* running).  The file system and the child processes are the environment: *)
(* anyone may rewrite the credential file at any time, so each read finds  *)
(* it in any state; mkdirSync may throw; a child process ends with any     *)
(* exit status and any standard error.                                     *)
(***************************************************************************)
EXTENDS Naturals, Sequences, FiniteSets

(***************************************************************************)
(* Bound of the model.                                                     *)
(***************************************************************************)
\* command executions (batches) in one run
MaxBatches == 2

Batches == 1 .. MaxBatches

(***************************************************************************)
(* Inputs: the files the dialog can return, the contents the credential    *)
(* file can have, the ways a child process can end.                        *)
(***************************************************************************)
\* fsPath of a selectable file: directory, stem and extension (a sequence
\* of characters, so that toLowerCase is a computation); the files the
\* dialog lists, in the order it lists them
FileList ==
    << [dir |-> "/a", stem |-> "Foo", ext |-> <<".", "p", "y">>],
       [dir |-> "/b", stem |-> "Foo", ext |-> <<".", "p", "y">>],
       [dir |-> "/a", stem |-> "Bar", ext |-> <<".", "J", "a", "v", "a">>] >>

FilePaths == { FileList[k] : k \in DOMAIN FileList }

\* the files of FileList at the positions in S, in listing order
RECURSIVE Pick(_, _)
Pick(S, k) ==
    IF k > Len(FileList) THEN << >>
    ELSE IF k \in S THEN <<FileList[k]>> \o Pick(S, k + 1)
    ELSE Pick(S, k + 1)

\* the lists of files a dialog can return: any of the listed files, each once
Selections == { Pick(S, 1) : S \in SUBSET DOMAIN FileList }

\* value of showOpenDialog: undefined when cancelled, else the list of URIs
DialogResults ==
    { [defined |-> FALSE, uris |-> << >>] }
        \cup { [defined |-> TRUE, uris |-> s] : s \in Selections }

NoDialogResult == [defined |-> FALSE, uris |-> << >>]

\* the states a read can find GOOGLE_CLOUD_API_KEY.txt in: unreadable (missing,
\* no permission), or readable with some text
KeyFiles ==
    { [readable |-> FALSE, content |-> << >>],
      [readable |-> TRUE, content |-> << >>],
      [readable |-> TRUE, content |-> <<" ", "\n">>],
      [readable |-> TRUE, content |-> <<" ", "k", "\n">>] }

\* how a child process ends, as exec reports it to its callback: the launch
\* fails, or the process exits, with or without text on standard error
Outcomes ==
    { [exit |-> "launch_failed", stderr |-> ""],
      [exit |-> "nonzero", stderr |-> "warn"],
      [exit |-> "zero", stderr |-> ""],
      [exit |-> "zero", stderr |-> "warn"] }

NoOutcome == [exit |-> "none", stderr |-> ""]

(***************************************************************************)
(* Library functions the handler calls, computed as Node computes them.    *)
(***************************************************************************)
\* the characters String.prototype.trim removes
IsWhitespace(c) == c \in {" ", "\n", "\t", "\r"}

RECURSIVE TrimStart(_)
TrimStart(s) ==
    IF s # << >> /\ IsWhitespace(Head(s)) THEN TrimStart(Tail(s)) ELSE s

RECURSIVE TrimEnd(_)
TrimEnd(s) ==
    IF s # << >> /\ IsWhitespace(s[Len(s)])
    THEN TrimEnd(SubSeq(s, 1, Len(s) - 1))
    ELSE s

\* a read that keeps the text as it is
TrimNothing(s) == s

\* a read that removes the leading whitespace only
TrimLeading(s) == TrimStart(s)

\* String.prototype.trim
Trim(s) == TrimEnd(TrimStart(s))

\* String.prototype.toLowerCase, on the letters the extensions are made of
ToLowerChar(c) ==
    CASE c = "P" -> "p"
      [] c = "Y" -> "y"
      [] c = "J" -> "j"
      [] c = "A" -> "a"
      [] c = "V" -> "v"
      [] c = "S" -> "s"
      [] c = "T" -> "t"
      [] OTHER -> c

\* an extension looked up as it is spelt
ToLowerCaseNothing(s) == s

ToLowerCase(s) == [k \in 1 .. Len(s) |-> ToLowerChar(s[k])]

\* path.dirname, path.basename, path.extname of an fsPath
Dirname(f) == f.dir

Basename(f) == [stem |-> f.stem, ext |-> f.ext]

Extname(f) == f.ext

\* path.join(baseDir, 'tests')
TestsDir(f) == <<Dirname(f), "tests">>

\* path.join(context.extensionPath, 'main.py')
pythonScriptPath == "main.py"

NoDir == << >>

NoFileName == [stem |-> "", ext |-> << >>]

(***************************************************************************)
(* State.                                                                  *)
(***************************************************************************)
VARIABLES
    running,        \* the batch whose handler holds the JavaScript thread, or 0
    pc,             \* pc[b]: where the handler of batch b is
    fileUris,       \* fileUris[b]: what the dialog returned
    apiKey,         \* apiKey[b]: the trimmed credential read by batch b
    outputDir,      \* outputDir[b]: set once the tests directory is there
    i,              \* i[b]: the loop counter
    procs,          \* procs[b]: the child processes exec was called for, in order
    notifications,  \* notifications[b]: the messages batch b has shown, in order
    console,        \* console[b]: the console entries batch b has written
    fsOps,          \* fsOps[b]: the file-system calls batch b has made
    existing        \* the tests directories that exist

vars ==
    <<running, pc, fileUris, apiKey, outputDir, i, procs, notifications,
      console, fsOps, existing>>

\* a message shown by vscode.window.show*Message; inv is the loop index of the
\* invocation it belongs to (0: none), the other fields are what its text holds
Message(kind, text, inv, fileName, language, num, n, detail) ==
    [kind |-> kind, text |-> text, inv |-> inv, fileName |-> fileName,
     language |-> language, num |-> num, n |-> n, detail |-> detail]

\* an entry written by console.log (stream "log") or console.error ("error")
LogEntry(stream, text, inv, fileName) ==
    [stream |-> stream, text |-> text, inv |-> inv, fileName |-> fileName]

\* a file-system call made by a handler: op is the function, ok is FALSE when
\* it threw (for existsSync: when it returned false), data is the text read
FsOp(op, ok, data) == [op |-> op, ok |-> ok, data |-> data]

\* the batches' tests directories, whether or not they exist
AllTestsDirs == { TestsDir(f) : f \in FilePaths }

Init ==
    /\ running = 0
    /\ pc = [b \in Batches |-> "idle"]
    /\ fileUris = [b \in Batches |-> NoDialogResult]
    /\ apiKey = [b \in Batches |-> << >>]
    /\ outputDir = [b \in Batches |-> NoDir]
    /\ i = [b \in Batches |-> 0]
    /\ procs = [b \in Batches |-> << >>]
    /\ notifications = [b \in Batches |-> << >>]
    /\ console = [b \in Batches |-> << >>]
    /\ fsOps = [b \in Batches |-> << >>]
    /\ existing \in SUBSET AllTestsDirs

(***************************************************************************)
(* The command handler.                                                    *)
(***************************************************************************)
\* a loop that suspends, so that callbacks run between its iterations
EventLoopAlwaysFree == TRUE

\* callbacks and resumed handlers run only when no handler is on the thread
EventLoopFree == running = 0

\* the files selected so far, in any batch
Range(s) == { s[k] : k \in DOMAIN s }

AlreadySelected == UNION { Range(fileUris[b].uris) : b \in Batches }

\* a command that refuses to start while a process of an earlier execution
\* is in flight
InvokeGuarded(b) ==
    /\ EventLoopFree
    /\ pc[b] = "idle"
    /\ b > 1 => pc[b - 1] # "idle"
    /\ \A c \in Batches :
           \A k \in DOMAIN procs[c] : procs[c][k].status # "inflight"
    /\ pc' = [pc EXCEPT ![b] = "dialog"]
    /\ UNCHANGED <<running, fileUris, apiKey, outputDir, i, procs,
                   notifications, console, fsOps, existing>>

\* the command is executed: the handler runs up to the await of the dialog
Invoke(b) ==
    /\ EventLoopFree
    /\ pc[b] = "idle"
    /\ b > 1 => pc[b - 1] # "idle"
    /\ pc' = [pc EXCEPT ![b] = "dialog"]
    /\ UNCHANGED <<running, fileUris, apiKey, outputDir, i, procs,
                   notifications, console, fsOps, existing>>

\* the selection check without its test of the length
SelectionEmptyUndefinedOnly(r) == ~r.defined

\* !fileUris || fileUris.length === 0
SelectionEmpty(r) == ~r.defined \/ Len(r.uris) = 0

\* the dialog is closed with result r: the selection check; a run selects
\* each file in one batch at most, which bounds the processes of a run
DialogReturn(b, r) ==
    /\ EventLoopFree
    /\ pc[b] = "dialog"
    /\ Range(r.uris) \cap AlreadySelected = {}
    /\ fileUris' = [fileUris EXCEPT ![b] = r]
    /\ IF SelectionEmpty(r)
       THEN /\ notifications' = [notifications EXCEPT ![b] =
                   Append(@, Message("warning", "No files selected", 0,
                                     NoFileName, "", 0, 0, ""))]
            /\ pc' = [pc EXCEPT ![b] = "returned"]
            /\ UNCHANGED running
       ELSE /\ pc' = [pc EXCEPT ![b] = "credential"]
            /\ running' = b
            /\ UNCHANGED notifications
    /\ UNCHANGED <<apiKey, outputDir, i, procs, console, fsOps, existing>>

\* the credential read without its test for an empty key
CredentialEmptyNever(key) == FALSE

\* !apiKey, for the trimmed text of the file
CredentialEmpty(key) == key = << >>

\* fs.readFileSync(apiKeyPath, 'utf8').trim() and the checks on it; keyFile is
\* the state the read finds GOOGLE_CLOUD_API_KEY.txt in
ReadCredential(b, keyFile) ==
    /\ pc[b] = "credential"
    /\ fsOps' = [fsOps EXCEPT ![b] =
           Append(@, FsOp("readFileSync", keyFile.readable, keyFile.content))]
    /\ IF ~keyFile.readable
       THEN /\ notifications' = [notifications EXCEPT ![b] =
                   Append(@, Message("error", "Could not read API key file", 0,
                                     NoFileName, "", 0, 0, ""))]
            /\ pc' = [pc EXCEPT ![b] = "returned"]
            /\ running' = 0
            /\ UNCHANGED apiKey
       ELSE IF CredentialEmpty(Trim(keyFile.content))
       THEN /\ notifications' = [notifications EXCEPT ![b] =
                   Append(@, Message("error", "API key file is empty", 0,
                                     NoFileName, "", 0, 0, ""))]
            /\ apiKey' = [apiKey EXCEPT ![b] = Trim(keyFile.content)]
            /\ pc' = [pc EXCEPT ![b] = "returned"]
            /\ running' = 0
       ELSE /\ notifications' = [notifications EXCEPT ![b] =
                   Append(@, Message("info", "Selected", 0, NoFileName, "", 0,
                                     Len(fileUris[b].uris), ""))]
            /\ apiKey' = [apiKey EXCEPT ![b] = Trim(keyFile.content)]
            /\ pc' = [pc EXCEPT ![b] = "testsdir"]
            /\ UNCHANGED running
    /\ UNCHANGED <<fileUris, outputDir, i, procs, console, existing>>

\* the directory step without the creation
NeedsMkdirNever(testsDir) == FALSE

\* !fs.existsSync(testsDir)
NeedsMkdir(testsDir) == testsDir \notin existing

\* a catch block that shows the error and goes on
MkdirErrorContinues == FALSE

\* the catch block of the mkdirSync try ends with return
MkdirErrorReturns == TRUE

\* the tests directory of the first file is created unless it exists;
\* mkdirSync succeeds (ok) or throws
SetupTestsDir(b, ok) ==
    /\ pc[b] = "testsdir"
    /\ LET testsDir == TestsDir(fileUris[b].uris[1]) IN
       IF NeedsMkdir(testsDir)
       THEN /\ fsOps' = [fsOps EXCEPT ![b] =
                   @ \o << FsOp("existsSync", FALSE, << >>),
                           FsOp("mkdirSync", ok, << >>) >>]
            /\ IF ok
               THEN /\ existing' = existing \cup {testsDir}
                    /\ console' = [console EXCEPT ![b] =
                           Append(@, LogEntry("log", "Created tests directory",
                                              0, NoFileName))]
                    /\ outputDir' = [outputDir EXCEPT ![b] = testsDir]
                    /\ pc' = [pc EXCEPT ![b] = "loop"]
                    /\ UNCHANGED <<notifications, running>>
               ELSE /\ notifications' = [notifications EXCEPT ![b] =
                           Append(@, Message("error",
                                             "Failed to create tests directory",
                                             0, NoFileName, "", 0, 0, "EACCES"))]
                    /\ IF MkdirErrorReturns
                       THEN /\ pc' = [pc EXCEPT ![b] = "returned"]
                            /\ running' = 0
                            /\ UNCHANGED outputDir
                       ELSE /\ outputDir' = [outputDir EXCEPT ![b] = testsDir]
                            /\ pc' = [pc EXCEPT ![b] = "loop"]
                            /\ UNCHANGED running
                    /\ UNCHANGED <<existing, console>>
       ELSE /\ ok
            /\ fsOps' = [fsOps EXCEPT ![b] =
                   Append(@, FsOp("existsSync", TRUE, << >>))]
            /\ outputDir' = [outputDir EXCEPT ![b] = testsDir]
            /\ pc' = [pc EXCEPT ![b] = "loop"]
            /\ UNCHANGED <<existing, console, notifications, running>>
    /\ UNCHANGED <<fileUris, apiKey, i, procs>>

\* a lookup that knows Python and Java only
LanguagePythonOrJava(fileExtension) ==
    IF fileExtension = <<".", "p", "y">> THEN "Python"
    ELSE IF fileExtension = <<".", "j", "a", "v", "a">> THEN "Java"
    ELSE "Unknown"

\* the language shown for a file: the lower-cased extension, looked up
Language(fileExtension) ==
    IF fileExtension = <<".", "p", "y">> THEN "Python"
    ELSE IF fileExtension = <<".", "j", "a", "v", "a">> THEN "Java"
    ELSE IF fileExtension = <<".", "j", "s">> THEN "JavaScript"
    ELSE IF fileExtension = <<".", "t", "s">> THEN "TypeScript"
    ELSE "Unknown"

\* the command line is a sequence of characters; a path or a program name
\* is one piece of text, taken to hold no character the shell treats
\* specially
Chr(c) == [kind |-> "char", val |-> c]

Text(x) == [kind |-> "text", val |-> x]

Chars(s) == [k \in 1 .. Len(s) |-> Chr(s[k])]

\* "${...}" in the template
Quoted(w) == <<Chr("\"")>> \o w \o <<Chr("\"")>>

\* a command line that sends each file's tests to its own directory
CommandOwnDir(filePath, dir, key) ==
    <<Text("python"), Chr(" ")>> \o Quoted(<<Text(pythonScriptPath)>>)
        \o <<Chr(" ")>> \o Quoted(<<Text(filePath)>>)
        \o <<Chr(" ")>> \o Quoted(<<Text(TestsDir(filePath))>>)
        \o <<Chr(" ")>> \o Quoted(Chars(key))

\* python "<script>" "<filePath>" "<outputDir>" "<apiKey>"
Command(filePath, dir, key) ==
    <<Text("python"), Chr(" ")>> \o Quoted(<<Text(pythonScriptPath)>>)
        \o <<Chr(" ")>> \o Quoted(<<Text(filePath)>>)
        \o <<Chr(" ")>> \o Quoted(<<Text(dir)>>)
        \o <<Chr(" ")>> \o Quoted(Chars(key))

\* exec hands the command line to the shell, which splits it into words: a
\* double quote opens or closes a quoted stretch and is dropped, a blank
\* outside quotes ends the word (the lines of the model have their quotes
\* in pairs)
IsQuote(c) == c.kind = "char" /\ c.val = "\""

IsBlank(c) == c.kind = "char" /\ c.val = " "

RECURSIVE SplitWords(_, _, _, _, _)
SplitWords(line, j, quoted, word, started) ==
    IF j > Len(line) THEN (IF started THEN <<word>> ELSE << >>)
    ELSE IF IsQuote(line[j])
    THEN SplitWords(line, j + 1, ~quoted, word, TRUE)
    ELSE IF IsBlank(line[j]) /\ ~quoted
    THEN (IF started THEN <<word>> ELSE << >>)
             \o SplitWords(line, j + 1, FALSE, << >>, FALSE)
    ELSE SplitWords(line, j + 1, quoted, Append(word, line[j]), TRUE)

\* the words the child process is started with
ShellWords(line) == SplitWords(line, 1, FALSE, << >>, FALSE)

\* a loop that goes on only while no process of the batch is in flight
LoopConditionOneAtATime(b) ==
    /\ i[b] < Len(fileUris[b].uris)
    /\ \A k \in DOMAIN procs[b] : procs[b][k].status # "inflight"

\* i < fileUris.length
LoopCondition(b) == i[b] < Len(fileUris[b].uris)

\* the numbering of the progress message counts from zero
ProgressNumberZeroBased(b) == i[b]

\* ${i + 1} of the progress message
ProgressNumber(b) == i[b] + 1

\* first half of an iteration of the dispatch loop: the file's names are
\* computed and the progress message is shown
ShowProgress(b) ==
    /\ pc[b] = "loop"
    /\ LoopCondition(b)
    /\ LET filePath == fileUris[b].uris[i[b] + 1]
           fileName == Basename(filePath)
           language == Language(ToLowerCase(Extname(filePath)))
       IN notifications' = [notifications EXCEPT ![b] =
              Append(@, Message("info", "AI generating tests", i[b] + 1,
                                fileName, language, ProgressNumber(b),
                                Len(fileUris[b].uris), ""))]
    /\ pc' = [pc EXCEPT ![b] = "exec"]
    /\ UNCHANGED <<running, fileUris, apiKey, outputDir, i, procs, console,
                   fsOps, existing>>

\* second half of the iteration: exec spawns the process; its callback
\* keeps this iteration's fileName and language; then i++
Exec(b) ==
    /\ pc[b] = "exec"
    /\ LET filePath == fileUris[b].uris[i[b] + 1]
           fileName == Basename(filePath)
           language == Language(ToLowerCase(Extname(filePath)))
       IN procs' = [procs EXCEPT ![b] =
              Append(@, [inv |-> i[b] + 1,
                         command |-> Command(filePath, outputDir[b], apiKey[b]),
                         argv |-> ShellWords(Command(filePath, outputDir[b],
                                                     apiKey[b])),
                         fileName |-> fileName,
                         language |-> language,
                         status |-> "inflight",
                         outcome |-> NoOutcome])]
    /\ i' = [i EXCEPT ![b] = @ + 1]
    /\ pc' = [pc EXCEPT ![b] = "loop"]
    /\ UNCHANGED <<running, fileUris, apiKey, outputDir, notifications,
                   console, fsOps, existing>>

\* deactivate() has an empty body: it changes nothing
Deactivate ==
    /\ EventLoopFree
    /\ UNCHANGED vars

\* the loop condition fails: the handler returns and frees the thread
Return(b) ==
    /\ pc[b] = "loop"
    /\ ~LoopCondition(b)
    /\ pc' = [pc EXCEPT ![b] = "returned"]
    /\ running' = 0
    /\ UNCHANGED <<fileUris, apiKey, outputDir, i, procs, notifications,
                   console, fsOps, existing>>

(***************************************************************************)
(* The callback exec runs when a child process has ended.                  *)
(***************************************************************************)
\* a callback that also takes text on standard error for a failure
ExecErrorOrStderr(r) == r.exit # "zero" \/ r.stderr # ""

\* exec passes an error when the process could not be launched or exited
\* with a non-zero status
ExecError(r) == r.exit # "zero"

\* error.message
ErrorMessage(r) ==
    IF r.exit = "launch_failed" THEN "spawn failed" ELSE "Command failed"

\* a callback that reports nothing once a process of its batch has failed
CallbackMessagesStopOnFailure(b, k, r) ==
    LET p == procs[b][k] IN
    IF \E j \in DOMAIN procs[b] :
           procs[b][j].status = "done" /\ procs[b][j].outcome.exit # "zero"
    THEN << >>
    ELSE IF r.exit # "zero"
    THEN << Message("error", "Error generating tests", p.inv, p.fileName, "",
                    0, 0, "Command failed") >>
    ELSE << Message("info", "SUCCESS", p.inv, p.fileName, p.language, 0, 0, "") >>

\* a callback that returns without a message when there is text on
\* standard error
CallbackMessagesSilentOnStderr(b, k, r) ==
    LET p == procs[b][k] IN
    IF r.exit # "zero"
    THEN << Message("error", "Error generating tests", p.inv, p.fileName, "",
                    0, 0, "Command failed") >>
    ELSE IF r.stderr # "" THEN << >>
    ELSE << Message("info", "SUCCESS", p.inv, p.fileName, p.language, 0, 0, "") >>

\* a callback that sees the fileName and language of the last iteration
CallbackMessagesLastFile(b, k, r) ==
    LET p == procs[b][k]
        q == procs[b][Len(procs[b])]
    IN IF r.exit # "zero"
       THEN << Message("error", "Error generating tests", p.inv, q.fileName, "",
                       0, 0, "Command failed") >>
       ELSE << Message("info", "SUCCESS", p.inv, q.fileName, q.language, 0, 0, "") >>

\* a callback whose error branch does not return
CallbackMessagesNoReturn(b, k, r) ==
    LET p == procs[b][k] IN
    (IF r.exit # "zero"
     THEN << Message("error", "Error generating tests", p.inv, p.fileName, "",
                     0, 0, "Command failed") >>
     ELSE << >>)
    \o << Message("info", "SUCCESS", p.inv, p.fileName, p.language, 0, 0, "") >>

\* the messages the callback of process k of batch b shows for outcome r
CallbackMessages(b, k, r) ==
    LET p == procs[b][k] IN
    IF ExecError(r)
    THEN << Message("error", "Error generating tests", p.inv, p.fileName, "",
                    0, 0, ErrorMessage(r)) >>
    ELSE << Message("info", "SUCCESS", p.inv, p.fileName, p.language, 0, 0, "") >>

\* the console entries the callback of process k of batch b writes
CallbackLogs(b, k, r) ==
    LET p == procs[b][k] IN
    IF ExecError(r)
    THEN << >>
    ELSE (IF r.stderr # ""
          THEN << LogEntry("error", "stderr", p.inv, p.fileName) >>
          ELSE << >>)
         \o << LogEntry("log", "AI generation results", p.inv, p.fileName) >>

\* completions delivered in the order of submission
CanCompleteInOrder(b, k) ==
    /\ procs[b][k].status = "inflight"
    /\ \A j \in 1 .. k - 1 : procs[b][j].status = "done"

\* the child process k of batch b can end: it was spawned and has not ended
CanComplete(b, k) == procs[b][k].status = "inflight"

\* a callback that kills the other processes of the batch after a failure
ProcsAfterCallbackKillSiblings(b, k, r) ==
    [j \in DOMAIN procs[b] |->
        IF j = k THEN [procs[b][j] EXCEPT !.status = "done", !.outcome = r]
        ELSE IF r.exit # "zero" /\ procs[b][j].status = "inflight"
        THEN [procs[b][j] EXCEPT !.status = "killed"]
        ELSE procs[b][j]]

\* a callback that runs a failed process again
ProcsAfterCallbackRetry(b, k, r) ==
    IF r.exit # "zero"
    THEN Append([procs[b] EXCEPT ![k].status = "done", ![k].outcome = r],
                [procs[b][k] EXCEPT !.status = "inflight"])
    ELSE [procs[b] EXCEPT ![k].status = "done", ![k].outcome = r]

\* what the callback of process k does to the processes of its batch
ProcsAfterCallback(b, k, r) ==
    [procs[b] EXCEPT ![k].status = "done", ![k].outcome = r]

\* process k of batch b ends with outcome r and its callback runs
Callback(b, k, r) ==
    /\ EventLoopFree
    /\ k \in DOMAIN procs[b]
    /\ CanComplete(b, k)
    /\ procs' = [procs EXCEPT ![b] = ProcsAfterCallback(b, k, r)]
    /\ notifications' = [notifications EXCEPT ![b] =
           @ \o CallbackMessages(b, k, r)]
    /\ console' = [console EXCEPT ![b] = @ \o CallbackLogs(b, k, r)]
    /\ UNCHANGED <<running, pc, fileUris, apiKey, outputDir, i, fsOps, existing>>

Next ==
    \/ \E b \in Batches : Invoke(b)
    \/ \E b \in Batches, r \in DialogResults : DialogReturn(b, r)
    \/ \E b \in Batches, keyFile \in KeyFiles : ReadCredential(b, keyFile)
    \/ \E b \in Batches, ok \in BOOLEAN : SetupTestsDir(b, ok)
    \/ \E b \in Batches : ShowProgress(b)
    \/ \E b \in Batches : Exec(b)
    \/ \E b \in Batches : Return(b)
    \/ \E b \in Batches, k \in DOMAIN FileList, r \in Outcomes : Callback(b, k, r)
    \/ Deactivate

Spec == Init /\ [][Next]_vars

(***************************************************************************)
(* The same handler, run on files of every spelling of extension: one      *)
(* batch of the run selects a single file Foo<ext>, the others select      *)
(* nothing.                                                                *)
(***************************************************************************)
\* the upper-case spelling of a letter of the four extensions
ToUpperChar(c) ==
    CASE c = "p" -> "P"
      [] c = "y" -> "Y"
      [] c = "j" -> "J"
      [] c = "a" -> "A"
      [] c = "v" -> "V"
      [] c = "s" -> "S"
      [] c = "t" -> "T"
      [] OTHER -> c

\* the spellings of the word w in upper and lower case, after a dot
Spellings(w) ==
    { <<".">> \o s : s \in { t \in [DOMAIN w -> { w[k] : k \in DOMAIN w }
                                         \cup { ToUpperChar(w[k]) : k \in DOMAIN w }] :
                               \A k \in DOMAIN w : t[k] \in {w[k], ToUpperChar(w[k])} } }

PySpellings == Spellings(<<"p", "y">>)
JavaSpellings == Spellings(<<"j", "a", "v", "a">>)
JsSpellings == Spellings(<<"j", "s">>)
TsSpellings == Spellings(<<"t", "s">>)

\* values of path.extname: none, a lone dot, the four extensions in every
\* case, and extensions that are near one of them
Extensions ==
    { << >>, <<".">> }
        \cup PySpellings \cup JavaSpellings \cup JsSpellings \cup TsSpellings
        \cup { <<".", "p">>, <<".", "p", "y", "c">>, <<".", "j", "a", "v">>,
               <<".", "j", "s", "x">>, <<".", "x", "y", "z">> }

\* what the dialog returns in these runs: nothing, or one file /a/Foo<ext>
ProbeResults ==
    { [defined |-> FALSE, uris |-> << >>] }
        \cup { [defined |-> TRUE,
                uris |-> << [dir |-> "/a", stem |-> "Foo", ext |-> e] >>] :
                e \in Extensions }

LangNext ==
    \/ \E b \in Batches : Invoke(b)
    \/ \E b \in Batches, r \in ProbeResults :
           AlreadySelected = {} /\ DialogReturn(b, r)
    \/ \E b \in Batches, keyFile \in KeyFiles : ReadCredential(b, keyFile)
    \/ \E b \in Batches, ok \in BOOLEAN : SetupTestsDir(b, ok)
    \/ \E b \in Batches : ShowProgress(b)
    \/ \E b \in Batches : Exec(b)
    \/ \E b \in Batches : Return(b)
    \/ \E b \in Batches, r \in Outcomes : Callback(b, 1, r)
    \/ Deactivate

LangSpec == Init /\ [][LangNext]_vars

(***************************************************************************)
(* The same handler, run on credential files whose text holds blanks and   *)
(* double quotes inside: one batch of the run selects files, the others    *)
(* select nothing.                                                         *)
(***************************************************************************)
\* states of the credential file: those of KeyFiles, and keys with a blank
\* and with a pair of double quotes inside
ShellKeyFiles ==
    KeyFiles
        \cup { [readable |-> TRUE, content |-> <<"k", " ", "x", "\n">>],
               [readable |-> TRUE, content |-> <<"k", "\"", " ", "\"", "x">>] }

ShellNext ==
    \/ \E b \in Batches : Invoke(b)
    \/ \E b \in Batches, r \in DialogResults :
           AlreadySelected = {} /\ DialogReturn(b, r)
    \/ \E b \in Batches, keyFile \in ShellKeyFiles : ReadCredential(b, keyFile)
    \/ \E b \in Batches, ok \in BOOLEAN : SetupTestsDir(b, ok)
    \/ \E b \in Batches : ShowProgress(b)
    \/ \E b \in Batches : Exec(b)
    \/ \E b \in Batches : Return(b)
    \/ \E b \in Batches, k \in DOMAIN FileList, r \in Outcomes : Callback(b, k, r)
    \/ Deactivate

ShellSpec == Init /\ [][ShellNext]_vars

(***************************************************************************)
(* The same handler, run on every short text of the credential file made   *)
(* of blanks, tabs, newlines and a letter: one batch of the run selects    *)
(* the first two files, the others select nothing; a process ends in one   *)
(* of two ways.                                                            *)
(***************************************************************************)
\* longest text of the credential file in these runs
MaxKeyLen == 3

KeyChars == {" ", "\t", "\n", "k"}

\* states of the credential file: unreadable, or readable with any text of
\* up to MaxKeyLen characters
TrimKeyFiles ==
    { [readable |-> FALSE, content |-> << >>] }
        \cup { [readable |-> TRUE, content |-> s] :
                s \in UNION { [1 .. m -> KeyChars] : m \in 0 .. MaxKeyLen } }

\* what the dialog returns in these runs: nothing, or the first two files
TrimResults ==
    { [defined |-> FALSE, uris |-> << >>],
      [defined |-> TRUE, uris |-> <<FileList[1], FileList[2]>>] }

\* two of the ways a child process ends: one that exec reports as an error,
\* one that it does not
EndOutcomes ==
    { [exit |-> "launch_failed", stderr |-> ""],
      [exit |-> "zero", stderr |-> "warn"] }

TrimNext ==
    \/ \E b \in Batches : Invoke(b)
    \/ \E b \in Batches, r \in TrimResults :
           AlreadySelected = {} /\ DialogReturn(b, r)
    \/ \E b \in Batches, keyFile \in TrimKeyFiles : ReadCredential(b, keyFile)
    \/ \E b \in Batches, ok \in BOOLEAN : SetupTestsDir(b, ok)
    \/ \E b \in Batches : ShowProgress(b)
    \/ \E b \in Batches : Exec(b)
    \/ \E b \in Batches : Return(b)
    \/ \E b \in Batches, k \in DOMAIN FileList, r \in EndOutcomes : Callback(b, k, r)
    \/ Deactivate

\* these runs start with no tests directory there
TrimInit == Init /\ existing = {}

TrimSpec == TrimInit /\ [][TrimNext]_vars

(***************************************************************************)
(* The run under the scheduling Node gives it: a handler that holds the    *)
(* thread runs on to its return, and a child process that was spawned ends *)
(* and has its callback run.  The user need not answer the dialog.         *)
(***************************************************************************)
HandlerStep ==
    \E b \in Batches :
        \/ \E keyFile \in KeyFiles : ReadCredential(b, keyFile)
        \/ \E ok \in BOOLEAN : SetupTestsDir(b, ok)
        \/ ShowProgress(b)
        \/ Exec(b)
        \/ Return(b)

\* some process that is in flight ends and its callback runs
SomeCallback ==
    \E b \in Batches, k \in DOMAIN FileList, r \in EndOutcomes : Callback(b, k, r)

Fairness == WF_vars(HandlerStep) /\ WF_vars(SomeCallback)

FairNext ==
    \/ \E b \in Batches : Invoke(b)
    \/ \E b \in Batches, r \in DialogResults : DialogReturn(b, r)
    \/ HandlerStep
    \/ SomeCallback
    \/ Deactivate

\* these runs start with no tests directory there
FairInit == Init /\ existing = {}

FairSpec == FairInit /\ [][FairNext]_vars /\ Fairness

(***************************************************************************)
(* Vocabulary of the properties.                                           *)
(***************************************************************************)
\* number of files batch b selected
NumFiles(b) == Len(fileUris[b].uris)

\* batch b passed the selection, credential and directory checks
PassedPreconditions(b) == outputDir[b] # NoDir

\* the handler of batch b has got its dialog result
Started(b) == pc[b] \notin {"idle", "dialog"}

\* the dialog of batch b was cancelled or returned an empty list
NoSelection(b) == ~fileUris[b].defined \/ NumFiles(b) = 0

\* positions in the notifications of batch b of the messages with this text
\* that belong to invocation k
Shown(b, text, k) ==
    { j \in DOMAIN notifications[b] :
        notifications[b][j].text = text /\ notifications[b][j].inv = k }

\* positions of all the messages of batch b with this text
ShownText(b, text) ==
    { j \in DOMAIN notifications[b] : notifications[b][j].text = text }

ErrorsShown(b, k) == Cardinality(Shown(b, "Error generating tests", k))

SuccessesShown(b, k) == Cardinality(Shown(b, "SUCCESS", k))

\* the completion notifications of batch b, in the order shown
IsCompletion(m) == m.text \in {"Error generating tests", "SUCCESS"}

Completions(b) == SelectSeq(notifications[b], IsCompletion)

\* the console entries of batch b that invocation k wrote
Logged(b, k) == { j \in DOMAIN console[b] : console[b][j].inv = k }

\* the processes of batch b that have ended
Done(b) == { k \in DOMAIN procs[b] : procs[b][k].status = "done" }

InFlight(b) == { k \in DOMAIN procs[b] : procs[b][k].status = "inflight" }

Failed(b, k) == procs[b][k].outcome.exit \in {"launch_failed", "nonzero"}

Succeeded(b, k) == procs[b][k].outcome.exit = "zero"

\* the loop of batch b is over and every process it spawned has ended
AllCompleted(b) ==
    /\ pc[b] = "returned"
    /\ PassedPreconditions(b)
    /\ InFlight(b) = {}

\* of the processes of batch b, the one of file idx failed and the others
\* succeeded
OnlyFailure(b, idx) ==
    /\ Failed(b, idx)
    /\ \A j \in DOMAIN procs[b] : j # idx => Succeeded(b, j)

(***************************************************************************)
(* C1  Independence: once every process of a batch of N files has ended,   *)
(* N processes were spawned, and if the process of the file at position    *)
(* idx failed while all the others succeeded, exactly one error            *)
(* notification has been shown, the one of idx, and exactly N-1 success    *)
(* notifications, one for each other file, whatever idx is.                *)
(***************************************************************************)
Independence ==
    \A b \in Batches :
        AllCompleted(b) =>
            /\ Len(procs[b]) = NumFiles(b)
            /\ \A idx \in 1 .. NumFiles(b) :
                   OnlyFailure(b, idx) =>
                       /\ Cardinality(ShownText(b, "Error generating tests")) = 1
                       /\ ErrorsShown(b, idx) = 1
                       /\ Cardinality(ShownText(b, "SUCCESS")) = NumFiles(b) - 1
                       /\ \A j \in 1 .. NumFiles(b) :
                              j # idx => SuccessesShown(b, j) = 1

\* three files, the first one failed and was the first to complete, the
\* other two succeeded afterwards
IndependenceWitness ==
    \E b \in Batches :
        /\ AllCompleted(b)
        /\ NumFiles(b) = 3
        /\ Len(procs[b]) = 3
        /\ OnlyFailure(b, 1)
        /\ Completions(b)[1].inv = 1
        /\ Completions(b)[1].kind = "error"

(***************************************************************************)
(* C2  Invocation count: a batch never has more processes than files, the  *)
(* k-th process is the one of the k-th selected file, and once the loop of *)
(* a batch that passed its preconditions is over there are exactly as many *)
(* processes as files; this stays so after processes failed (no retry).    *)
(***************************************************************************)
InvocationCount ==
    \A b \in Batches :
        /\ Len(procs[b]) <= NumFiles(b)
        /\ \A k \in DOMAIN procs[b] :
               /\ procs[b][k].inv = k
               /\ procs[b][k].argv[3] = <<Text(fileUris[b].uris[k])>>
        /\ (pc[b] = "returned" /\ PassedPreconditions(b))
               => Len(procs[b]) = NumFiles(b)

\* three files, all three processes ended, two of them failed, three processes
InvocationCountWitness ==
    \E b \in Batches :
        /\ AllCompleted(b)
        /\ NumFiles(b) = 3
        /\ Failed(b, 1) /\ Failed(b, 3) /\ Succeeded(b, 2)
        /\ Len(procs[b]) = 3

(***************************************************************************)
(* C3  Empty selection: when the dialog was cancelled or returned an empty *)
(* list, the handler has returned having shown exactly one notification,   *)
(* the warning, and nothing else happened: no process, no file-system call *)
(* (no credential read, no existence test, no directory creation), no      *)
(* console entry, no progress notification.                                *)
(***************************************************************************)
EmptySelection ==
    \A b \in Batches :
        (Started(b) /\ NoSelection(b)) =>
            /\ pc[b] = "returned"
            /\ Len(notifications[b]) = 1
            /\ notifications[b][1].kind = "warning"
            /\ notifications[b][1].text = "No files selected"
            /\ procs[b] = << >>
            /\ fsOps[b] = << >>
            /\ console[b] = << >>
            /\ apiKey[b] = << >>
            /\ ~PassedPreconditions(b)

\* the dialog returned an empty list (not undefined) while an earlier batch
\* has a process in flight
EmptySelectionWitness ==
    \E b \in Batches :
        /\ Started(b)
        /\ fileUris[b].defined
        /\ fileUris[b].uris = << >>
        /\ \E a \in Batches : InFlight(a) # {}

\* positions in the file-system calls of batch b of the calls of op
Calls(b, op) == { j \in DOMAIN fsOps[b] : fsOps[b][j].op = op }

\* batch b read the credential file and found it unreadable or empty
BadCredential(b) ==
    \E j \in Calls(b, "readFileSync") :
        ~fsOps[b][j].ok \/ fsOps[b][j].data = << >>

(***************************************************************************)
(* C4  Credential gating: when a batch with a non-empty selection found    *)
(* the credential file missing, unreadable or empty, its handler has       *)
(* returned having shown one notification, an error, and the batch has no  *)
(* process, in this and so in every later state, whatever the size of the  *)
(* selection.                                                              *)
(***************************************************************************)
CredentialGating ==
    \A b \in Batches :
        (NumFiles(b) >= 1 /\ BadCredential(b)) =>
            /\ pc[b] = "returned"
            /\ Len(notifications[b]) = 1
            /\ notifications[b][1].kind = "error"
            /\ notifications[b][1].text \in
                   {"Could not read API key file", "API key file is empty"}
            /\ procs[b] = << >>
            /\ ~PassedPreconditions(b)

\* three files selected and the credential file readable but empty
CredentialGatingWitness ==
    \E b \in Batches :
        /\ NumFiles(b) = 3
        /\ \E j \in Calls(b, "readFileSync") :
               fsOps[b][j].ok /\ fsOps[b][j].data = << >>
        /\ pc[b] = "returned"

(***************************************************************************)
(* C5  Directory creation: whenever a batch has a process, its output      *)
(* directory exists and is the one every process was given; a batch calls  *)
(* mkdirSync at most once, and only after existsSync returned false; a     *)
(* batch that found the directory present calls mkdirSync not at all and   *)
(* shows no directory error; a batch that found it absent and spawned      *)
(* created it.                                                             *)
(***************************************************************************)
DirectoryCreation ==
    \A b \in Batches :
        /\ procs[b] # << >> =>
               /\ outputDir[b] \in existing
               /\ \A k \in DOMAIN procs[b] : procs[b][k].argv[4] = <<Text(outputDir[b])>>
        /\ Cardinality(Calls(b, "mkdirSync")) <= 1
        /\ Cardinality(Calls(b, "existsSync")) <= 1
        /\ \A j \in Calls(b, "existsSync") :
               IF fsOps[b][j].ok
               THEN /\ Calls(b, "mkdirSync") = {}
                    /\ ShownText(b, "Failed to create tests directory") = {}
               ELSE Calls(b, "mkdirSync") = {j + 1}
        /\ Calls(b, "mkdirSync") # {} => Calls(b, "existsSync") # {}
        /\ (procs[b] # << >> /\ \E j \in Calls(b, "existsSync") : ~fsOps[b][j].ok)
               => \E j \in Calls(b, "mkdirSync") : fsOps[b][j].ok

\* three files, the directory was absent, one mkdirSync, three processes
DirectoryCreationWitness ==
    \E b \in Batches :
        /\ NumFiles(b) = 3
        /\ Len(procs[b]) = 3
        /\ \E j \in Calls(b, "existsSync") : ~fsOps[b][j].ok
        /\ Cardinality(Calls(b, "mkdirSync")) = 1

(***************************************************************************)
(* C6  Directory-creation error: when mkdirSync threw for a batch, its     *)
(* handler has returned having shown the directory error once, and the     *)
(* batch has no process and no progress notification.                      *)
(***************************************************************************)
DirectoryCreationError ==
    \A b \in Batches :
        (\E j \in Calls(b, "mkdirSync") : ~fsOps[b][j].ok) =>
            /\ pc[b] = "returned"
            /\ Cardinality(ShownText(b, "Failed to create tests directory")) = 1
            /\ notifications[b][Len(notifications[b])].kind = "error"
            /\ procs[b] = << >>
            /\ ShownText(b, "AI generating tests") = {}
            /\ ~PassedPreconditions(b)

\* two files selected, a valid credential, and mkdirSync threw
DirectoryCreationErrorWitness ==
    \E b \in Batches :
        /\ NumFiles(b) = 2
        /\ apiKey[b] # << >>
        /\ \E j \in Calls(b, "mkdirSync") : ~fsOps[b][j].ok

(***************************************************************************)
(* C7  Submission before completion: whenever a process of a batch has     *)
(* ended or a completion notification of the batch has been shown, the     *)
(* loop of the batch is over and every selected file has its process.      *)
(***************************************************************************)
SubmissionBeforeCompletion ==
    \A b \in Batches :
        (Done(b) # {} \/ Completions(b) # << >>) =>
            /\ pc[b] = "returned"
            /\ Len(procs[b]) = NumFiles(b)

\* three files, one completion shown, the other two processes in flight
SubmissionBeforeCompletionWitness ==
    \E b \in Batches :
        /\ NumFiles(b) = 3
        /\ Len(Completions(b)) = 1
        /\ Cardinality(InFlight(b)) = 2

\* number of completion notifications shown for invocation k of batch b
CompletionsShown(b, k) == ErrorsShown(b, k) + SuccessesShown(b, k)

\* positions in the console of batch b of the entries with this text that
\* invocation k wrote
LoggedText(b, text, k) ==
    { j \in Logged(b, k) : console[b][j].text = text }

(***************************************************************************)
(* C8  as claimed: every process that has ended has exactly one completion *)
(* notification and at least one console entry.  The callback of a failed  *)
(* process returns after showErrorMessage and writes nothing to the        *)
(* console, so this does not hold.                                         *)
(***************************************************************************)
OneNotificationAndLogPerCompletion ==
    \A b \in Batches :
        \A k \in Done(b) :
            /\ CompletionsShown(b, k) = 1
            /\ Logged(b, k) # {}

(***************************************************************************)
(* C8  amended: every process that has ended has exactly one completion    *)
(* notification (an error or a success, never both, never none) and every  *)
(* process in flight has none; a process that succeeded has exactly one    *)
(* console.log entry with its results, and one console.error entry exactly *)
(* when its standard error is not empty; a process that failed has no      *)
(* console entry.                                                          *)
(***************************************************************************)
OneNotificationPerCompletion ==
    \A b \in Batches :
        /\ \A k \in InFlight(b) : CompletionsShown(b, k) = 0 /\ Logged(b, k) = {}
        /\ \A k \in Done(b) :
               /\ CompletionsShown(b, k) = 1
               /\ IF Succeeded(b, k)
                  THEN /\ Cardinality(LoggedText(b, "AI generation results", k)) = 1
                       /\ Cardinality(LoggedText(b, "stderr", k)) =
                              (IF procs[b][k].outcome.stderr # "" THEN 1 ELSE 0)
                       /\ Cardinality(Logged(b, k)) =
                              (IF procs[b][k].outcome.stderr # "" THEN 2 ELSE 1)
                  ELSE Logged(b, k) = {}
        /\ Len(Completions(b)) = Cardinality(Done(b))

\* a batch in which one process failed and one succeeded, both reported
OneNotificationPerCompletionWitness ==
    \E b \in Batches :
        /\ \E k \in Done(b) : Failed(b, k) /\ ErrorsShown(b, k) = 1
        /\ \E k \in Done(b) : Succeeded(b, k) /\ SuccessesShown(b, k) = 1
        /\ InFlight(b) # {}

(***************************************************************************)
(* C9  Outcome classification: a process that has ended has an error       *)
(* notification exactly when it failed to launch or exited with a non-zero *)
(* status, and a success notification exactly when it exited with status   *)
(* zero, whatever its standard error holds; the error notification carries *)
(* the error's message, the kind of each notification fits its text.       *)
(***************************************************************************)
OutcomeClassification ==
    \A b \in Batches :
        /\ \A k \in Done(b) :
               /\ ErrorsShown(b, k) >= 1 <=> Failed(b, k)
               /\ SuccessesShown(b, k) >= 1 <=> Succeeded(b, k)
        /\ \A j \in DOMAIN notifications[b] :
               /\ notifications[b][j].text = "Error generating tests"
                      => /\ notifications[b][j].kind = "error"
                         /\ notifications[b][j].detail # ""
               /\ notifications[b][j].text = "SUCCESS"
                      => notifications[b][j].kind = "info"

\* a process that exited with status zero and text on standard error has its
\* success notification, and one that failed to launch has its error
OutcomeClassificationWitness ==
    \E b \in Batches :
        /\ \E k \in Done(b) :
               /\ procs[b][k].outcome = [exit |-> "zero", stderr |-> "warn"]
               /\ SuccessesShown(b, k) = 1
        /\ \E k \in Done(b) :
               /\ procs[b][k].outcome.exit = "launch_failed"
               /\ ErrorsShown(b, k) = 1

(***************************************************************************)
(* C10  No ordering guarantee: whenever no handler is running, each        *)
(* process in flight, whatever its position in the batch and whatever has  *)
(* completed before, can be the next to complete, with any outcome; so     *)
(* the completion notifications of N files can appear in each of the N!    *)
(* orders.                                                                 *)
(***************************************************************************)
NoOrderingGuarantee ==
    running = 0 =>
        \A b \in Batches :
            \A k \in InFlight(b) :
                \A r \in Outcomes : ENABLED Callback(b, k, r)

\* three files whose completion notifications were shown in the reverse of
\* the submission order
NoOrderingGuaranteeWitness ==
    \E b \in Batches :
        /\ NumFiles(b) = 3
        /\ Len(Completions(b)) = 3
        /\ Completions(b)[1].inv = 3
        /\ Completions(b)[2].inv = 2
        /\ Completions(b)[3].inv = 1

(***************************************************************************)
(* C11  Language tagging: the tag shown for a file is a function of its    *)
(* extension only: Python for .py, Java for .java, JavaScript for .js,     *)
(* TypeScript for .ts, Unknown for every other extension and for none.     *)
(* The progress and the success notification of a file carry the same      *)
(* tag.  The tag is no part of the command, and a file is spawned whatever *)
(* its tag.                                                                *)
(***************************************************************************)
\* the tag of an extension, by the table of the claim
TagOf(ext) ==
    IF ext \in PySpellings THEN "Python"
    ELSE IF ext \in JavaSpellings THEN "Java"
    ELSE IF ext \in JsSpellings THEN "JavaScript"
    ELSE IF ext \in TsSpellings THEN "TypeScript"
    ELSE "Unknown"

\* file k of batch b
File(b, k) == fileUris[b].uris[k]

\* the command line made of a file path, a directory and a credential, each
\* between double quotes, and of nothing else
CommandLine(file, dir, key) ==
    <<Text("python"), Chr(" "), Chr("\""), Text("main.py"), Chr("\""),
      Chr(" "), Chr("\""), Text(file), Chr("\""),
      Chr(" "), Chr("\""), Text(dir), Chr("\""), Chr(" "), Chr("\"")>>
        \o [j \in 1 .. Len(key) |-> Chr(key[j])] \o <<Chr("\"")>>

LanguageTagging ==
    \A b \in Batches :
        /\ \A j \in DOMAIN notifications[b] :
               notifications[b][j].text \in {"AI generating tests", "SUCCESS"}
                   => notifications[b][j].language =
                          TagOf(File(b, notifications[b][j].inv).ext)
        /\ \A k \in DOMAIN procs[b] :
               /\ procs[b][k].command = CommandLine(File(b, k), outputDir[b], apiKey[b])
               /\ \A j \in Shown(b, "AI generating tests", k) :
                      \A h \in Shown(b, "SUCCESS", k) :
                          notifications[b][j].language = notifications[b][h].language
        /\ (pc[b] = "returned" /\ PassedPreconditions(b))
               => Len(procs[b]) = NumFiles(b)

\* a file with an extension that is none of the four was spawned, and its
\* progress and its success notification both say Unknown
LanguageTaggingWitness ==
    \E b \in Batches :
        /\ NumFiles(b) = 1
        /\ File(b, 1).ext = <<".", "x", "y", "z">>
        /\ 1 \in Done(b)
        /\ Succeeded(b, 1)
        /\ \E j \in Shown(b, "AI generating tests", 1) :
               notifications[b][j].language = "Unknown"
        /\ \E h \in Shown(b, "SUCCESS", 1) :
               notifications[b][h].language = "Unknown"

(***************************************************************************)
(* C12  Process-invocation contract: every invocation gets exactly three   *)
(* arguments after the script path: the file's path, the output            *)
(* directory, the credential, in this order.  Within a batch the output    *)
(* directory and the credential are the same for every invocation.  The    *)
(* batch reads the credential file once, before it spawns anything, and    *)
(* the credential of every invocation is the text of that one read         *)
(* without its surrounding whitespace, whatever state the file is in       *)
(* later.                                                                  *)
(***************************************************************************)
\* key is text without the whitespace around it
IsTrimmed(text, key) ==
    \E a \in 0 .. Len(text) :
        \E z \in a .. Len(text) :
            /\ key = SubSeq(text, a + 1, z)
            /\ \A j \in (1 .. a) \cup ((z + 1) .. Len(text)) :
                   text[j] \in {" ", "\n", "\t", "\r"}
            /\ key # << >> => /\ key[1] \notin {" ", "\n", "\t", "\r"}
                              /\ key[Len(key)] \notin {" ", "\n", "\t", "\r"}

\* the characters of an argument that is made of characters only
ArgText(word) == [j \in 1 .. Len(word) |-> word[j].val]

InvocationContract ==
    \A b \in Batches :
        /\ Cardinality(Calls(b, "readFileSync")) <= 1
        /\ \A k \in DOMAIN procs[b] :
               /\ Len(procs[b][k].argv) = 5
               /\ procs[b][k].argv[1] = <<Text("python")>>
               /\ procs[b][k].argv[2] = <<Text("main.py")>>
               /\ procs[b][k].argv[3] = <<Text(File(b, k))>>
               /\ procs[b][k].argv[4] = procs[b][1].argv[4]
               /\ procs[b][k].argv[5] = procs[b][1].argv[5]
               /\ procs[b][k].argv[4] = <<Text(outputDir[b])>>
               /\ Calls(b, "readFileSync") = {1}
               /\ fsOps[b][1].ok
               /\ \A j \in DOMAIN procs[b][k].argv[5] :
                      procs[b][k].argv[5][j].kind = "char"
               /\ IsTrimmed(fsOps[b][1].data, ArgText(procs[b][k].argv[5]))
               /\ procs[b][k].argv[5] # << >>

(***************************************************************************)
(* C13  No concurrency cap: while the loop has files left, its next step   *)
(* is enabled however many processes are in flight, and none of the        *)
(* processes spawned so far has completed; so when the loop ends, all N    *)
(* processes of the batch are in flight at once.                           *)
(***************************************************************************)
NoConcurrencyCap ==
    \A b \in Batches :
        /\ pc[b] \in {"loop", "exec"}
               => /\ InFlight(b) = DOMAIN procs[b]
                  /\ Len(procs[b]) = i[b]
        /\ (pc[b] = "loop" /\ i[b] < NumFiles(b)) => ENABLED ShowProgress(b)
        /\ pc[b] = "exec" => ENABLED Exec(b)
        /\ (pc[b] = "loop" /\ i[b] = NumFiles(b))
               => /\ Cardinality(InFlight(b)) = NumFiles(b)
                  /\ ENABLED Return(b)

\* the handler of a batch of three files has returned and all three
\* processes are in flight
NoConcurrencyCapWitness ==
    \E b \in Batches :
        /\ NumFiles(b) = 3
        /\ pc[b] = "returned"
        /\ InFlight(b) = {1, 2, 3}

(***************************************************************************)
(* C14  Eventual per-file report: when every spawned process ends (and a   *)
(* handler that holds the thread runs on), a batch that has entered its    *)
(* loop reaches a state where each of its N files has its completion       *)
(* notification and the completion notifications number N; and in every    *)
(* state the completion notifications of a batch are no more than the      *)
(* processes it has spawned.                                               *)
(***************************************************************************)
\* every file of batch b has exactly one completion notification and there
\* are no others
AllReported(b) ==
    /\ Len(Completions(b)) = NumFiles(b)
    /\ \A k \in 1 .. NumFiles(b) : CompletionsShown(b, k) = 1

EventualReport ==
    /\ [](\A b \in Batches : Len(Completions(b)) <= Len(procs[b]))
    /\ \A b \in Batches : (pc[b] = "loop") ~> AllReported(b)

\* three files, of which one failed and one succeeded, all reported
EventualReportWitness ==
    \E b \in Batches :
        /\ NumFiles(b) = 3
        /\ AllCompleted(b)
        /\ AllReported(b)
        /\ \E k \in Done(b) : Failed(b, k)
        /\ \E k \in Done(b) : Succeeded(b, k)

(***************************************************************************)
(* C15  No cancellation: in every step, a process that is in flight stays  *)
(* in flight, unchanged, unless the step is its own completion, which      *)
(* adds its completion notification; no process is ever removed.  This     *)
(* holds for the steps of every handler, for the callbacks of the other    *)
(* processes, failed or not, and for deactivate.                           *)
(***************************************************************************)
\* the step is the completion of process k of batch b
OwnCompletion(b, k) ==
    /\ procs'[b][k].status = "done"
    /\ Len(notifications'[b]) = Len(notifications[b]) + 1
    /\ notifications'[b][Len(notifications'[b])].inv = k
    /\ IsCompletion(notifications'[b][Len(notifications'[b])])

NoCancellation ==
    [][\A b \in Batches :
          /\ DOMAIN procs[b] \subseteq DOMAIN procs'[b]
          /\ \A k \in DOMAIN procs[b] :
                 procs[b][k].status = "inflight"
                     => \/ procs'[b][k] = procs[b][k]
                        \/ OwnCompletion(b, k)]_vars

\* the first process of a batch has failed, a later command execution has
\* run to its return, and the second process of the batch is still in flight
NoCancellationWitness ==
    \E b \in Batches :
        \E c \in Batches :
            /\ c > b
            /\ 1 \in Done(b)
            /\ Failed(b, 1)
            /\ 2 \in InFlight(b)
            /\ pc[c] = "returned"

(***************************************************************************)
(* C16  Result correlation: the completion notification of an invocation   *)
(* names the base name of the file the invocation was spawned for, and a   *)
(* success notification its language tag, in whatever order the            *)
(* invocations of the batch complete.                                      *)
(***************************************************************************)
\* the positions of the completion notifications of invocation k of batch b
CompletionsOf(b, k) ==
    Shown(b, "Error generating tests", k) \cup Shown(b, "SUCCESS", k)

ResultCorrelation ==
    \A b \in Batches :
        /\ \A j \in DOMAIN notifications[b] :
               IsCompletion(notifications[b][j])
                   => notifications[b][j].inv \in Done(b)
        /\ \A k \in Done(b) :
               /\ procs[b][k].argv[3] = <<Text(File(b, k))>>
               /\ CompletionsOf(b, k) # {}
               /\ \A j \in CompletionsOf(b, k) :
                      /\ notifications[b][j].fileName.stem = File(b, k).stem
                      /\ notifications[b][j].fileName.ext = File(b, k).ext
               /\ \A j \in Shown(b, "SUCCESS", k) :
                      notifications[b][j].language = TagOf(File(b, k).ext)

\* Foo.py and Bar.Java were submitted in this order and completed in the
\* reverse order; each notification names its own file and language
ResultCorrelationWitness ==
    \E b \in Batches :
        /\ NumFiles(b) = 2
        /\ File(b, 1).stem = "Foo"
        /\ File(b, 2).stem = "Bar"
        /\ Len(Completions(b)) = 2
        /\ Completions(b)[1].inv = 2
        /\ Completions(b)[1].text = "SUCCESS"
        /\ Completions(b)[1].fileName.stem = "Bar"
        /\ Completions(b)[1].language = "Java"
        /\ Completions(b)[2].inv = 1
        /\ Completions(b)[2].fileName.stem = "Foo"

(***************************************************************************)
(* C17  Precondition failures leave the file system untouched: a batch     *)
(* that was aborted by the selection check or by the credential check      *)
(* (file unreadable, or empty once the whitespace is taken away) has made  *)
(* no existsSync and no mkdirSync call and has no output directory; any    *)
(* batch that made one of these calls had files selected and had read a    *)
(* credential that is not empty, before the call.                          *)
(***************************************************************************)
\* the text is made of whitespace only
AllWhitespace(text) ==
    \A j \in DOMAIN text : text[j] \in {" ", "\n", "\t", "\r"}

\* batch b read the credential file and the credential check failed
CredentialCheckFailed(b) ==
    \E j \in Calls(b, "readFileSync") :
        ~fsOps[b][j].ok \/ AllWhitespace(fsOps[b][j].data)

\* the calls of batch b that test for or create the output directory
DirectoryCalls(b) == Calls(b, "existsSync") \cup Calls(b, "mkdirSync")

PreconditionFailureNoFs ==
    \A b \in Batches :
        /\ ((Started(b) /\ NoSelection(b)) \/ CredentialCheckFailed(b))
               => /\ DirectoryCalls(b) = {}
                  /\ outputDir[b] = NoDir
                  /\ console[b] = << >>
                  /\ pc[b] = "returned"
        /\ DirectoryCalls(b) # {}
               => /\ NumFiles(b) >= 1
                  /\ fsOps[b][1].op = "readFileSync"
                  /\ fsOps[b][1].ok
                  /\ ~AllWhitespace(fsOps[b][1].data)
                  /\ \A j \in DirectoryCalls(b) : j > 1

\* files were selected, the credential file held whitespace only, and the
\* batch ended with the read as its only call, its tests directory missing
PreconditionFailureNoFsWitness ==
    \E b \in Batches :
        /\ NumFiles(b) >= 1
        /\ pc[b] = "returned"
        /\ Len(fsOps[b]) = 1
        /\ fsOps[b][1].op = "readFileSync"
        /\ fsOps[b][1].data = <<" ", "\n">>
        /\ <<File(b, 1).dir, "tests">> \notin existing

(***************************************************************************)
(* C18  Shared output location: the output directory given to every        *)
(* invocation of a batch is the directory 'tests' inside the directory of  *)
(* the first selected file, also for the files of other directories; two   *)
(* files with the same base name in different directories are given the    *)
(* same output directory.                                                  *)
(***************************************************************************)
\* 'tests' inside the directory of the first file of batch b
FirstFileTests(b) == <<File(b, 1).dir, "tests">>

SharedOutputDir ==
    \A b \in Batches :
        /\ outputDir[b] # NoDir => outputDir[b] = FirstFileTests(b)
        /\ \A k \in DOMAIN procs[b] :
               /\ Len(procs[b][k].argv) >= 4
               /\ procs[b][k].argv[4] = <<Text(FirstFileTests(b))>>

\* /a/Foo.py and /b/Foo.py in one batch: both invocations were given /a/tests
SharedOutputDirWitness ==
    \E b \in Batches :
        /\ Len(procs[b]) >= 2
        /\ File(b, 1).dir = "/a"
        /\ File(b, 2).dir = "/b"
        /\ File(b, 1).stem = File(b, 2).stem
        /\ File(b, 1).ext = File(b, 2).ext
        /\ procs[b][1].argv[4] = <<Text(<<"/a", "tests">>)>>
        /\ procs[b][2].argv[4] = <<Text(<<"/a", "tests">>)>>
        /\ procs[b][2].argv[3] = <<Text(File(b, 2))>>

(***************************************************************************)
(* C19  Progress ordering: the progress notifications of a batch appear    *)
(* in selection order, the k-th numbered k of N and naming file k; the     *)
(* progress notification of file k is there before process k is spawned;   *)
(* and all N progress notifications come before every completion           *)
(* notification of the batch.                                              *)
(***************************************************************************)
IsProgress(m) == m.text = "AI generating tests"

\* the progress notifications of batch b, in the order shown
Progress(b) == SelectSeq(notifications[b], IsProgress)

ProgressOrdering ==
    \A b \in Batches :
        /\ \A k \in DOMAIN Progress(b) :
               /\ Progress(b)[k].num = k
               /\ Progress(b)[k].n = NumFiles(b)
               /\ Progress(b)[k].inv = k
               /\ Progress(b)[k].fileName.stem = File(b, k).stem
               /\ Progress(b)[k].fileName.ext = File(b, k).ext
        /\ Len(procs[b]) <= Len(Progress(b))
        /\ Len(Progress(b)) <= Len(procs[b]) + 1
        /\ pc[b] = "exec" => Len(Progress(b)) = Len(procs[b]) + 1
        /\ Len(Completions(b)) > 0 => Len(Progress(b)) = NumFiles(b)
        /\ \A j \in DOMAIN notifications[b] :
               \A h \in DOMAIN notifications[b] :
                   (IsProgress(notifications[b][j])
                        /\ IsCompletion(notifications[b][h])) => j < h

\* three files: the progress notifications 1 of 3, 2 of 3 and 3 of 3 are
\* followed by the first completion notification, that of the last file
ProgressOrderingWitness ==
    \E b \in Batches :
        /\ NumFiles(b) = 3
        /\ Len(Progress(b)) = 3
        /\ Progress(b)[3].num = 3
        /\ Progress(b)[3].n = 3
        /\ Len(Completions(b)) = 1
        /\ Completions(b)[1].inv = 3
        /\ IsCompletion(notifications[b][Len(notifications[b])])

(***************************************************************************)
(* C20  Extension matching is case-insensitive: a file whose extension is  *)
(* .py, .java, .js or .ts in any mixture of upper and lower case (Foo.PY,  *)
(* Foo.Java, Foo.JS, Foo.TS) is tagged Python, Java, JavaScript or         *)
(* TypeScript, in the process record and in every notification that        *)
(* carries a tag.                                                          *)
(***************************************************************************)
\* the tag is that of one of the four languages, whatever the case of ext
TaggedByLetters(ext, tag) ==
    /\ ext \in PySpellings => tag = "Python"
    /\ ext \in JavaSpellings => tag = "Java"
    /\ ext \in JsSpellings => tag = "JavaScript"
    /\ ext \in TsSpellings => tag = "TypeScript"
    /\ ext \in PySpellings \cup JavaSpellings \cup JsSpellings \cup TsSpellings
           => tag # "Unknown"

CaseInsensitiveMatch ==
    \A b \in Batches :
        /\ \A k \in DOMAIN procs[b] :
               TaggedByLetters(File(b, k).ext, procs[b][k].language)
        /\ \A j \in DOMAIN notifications[b] :
               (IsProgress(notifications[b][j])
                    \/ notifications[b][j].text = "SUCCESS")
                   => TaggedByLetters(notifications[b][j].fileName.ext,
                                      notifications[b][j].language)

\* Foo.TS was announced and reported with the tag TypeScript
CaseInsensitiveMatchWitness ==
    \E b \in Batches :
        /\ NumFiles(b) = 1
        /\ File(b, 1).ext = <<".", "T", "S">>
        /\ \E j \in Shown(b, "AI generating tests", 1) :
               notifications[b][j].language = "TypeScript"
        /\ \E j \in Shown(b, "SUCCESS", 1) :
               notifications[b][j].language = "TypeScript"

(***************************************************************************)
(* C21  Credential normalisation: the credential of a batch, the one put   *)
(* into the command line of each of its invocations and received by them,  *)
(* is the text of the credential file without its leading and trailing     *)
(* whitespace, the whitespace inside kept; a credential file that holds    *)
(* whitespace only is treated like an empty one: the only notification is  *)
(* the error 'API key file is empty' and no process is spawned.            *)
(***************************************************************************)
CredentialNormalisation ==
    \A b \in Batches :
        \A j \in Calls(b, "readFileSync") :
            fsOps[b][j].ok =>
                IF AllWhitespace(fsOps[b][j].data)
                THEN /\ pc[b] = "returned"
                     /\ Len(notifications[b]) = 1
                     /\ notifications[b][1].kind = "error"
                     /\ notifications[b][1].text = "API key file is empty"
                     /\ procs[b] = << >>
                     /\ DirectoryCalls(b) = {}
                ELSE /\ IsTrimmed(fsOps[b][j].data, apiKey[b])
                     /\ apiKey[b] # << >>
                     /\ \A k \in DOMAIN procs[b] :
                            /\ procs[b][k].command =
                                   CommandLine(File(b, k), outputDir[b], apiKey[b])
                            /\ Len(procs[b][k].argv) = 5
                            /\ ArgText(procs[b][k].argv[5]) = apiKey[b]

\* the file held a tab, 'k' and a newline; both invocations of the batch
\* were given 'k'
CredentialNormalisationWitness ==
    \E b \in Batches :
        /\ Len(procs[b]) = 2
        /\ fsOps[b][1].op = "readFileSync"
        /\ fsOps[b][1].data = <<"\t", "k", "\n">>
        /\ ArgText(procs[b][1].argv[5]) = <<"k">>
        /\ ArgText(procs[b][2].argv[5]) = <<"k">>

(***************************************************************************)
(* C22  Overlapping batches: the command can be executed whenever the      *)
(* thread is free, also while processes of an earlier batch are in flight. *)
(* A step changes the state of one batch at most, so the batches share     *)
(* nothing but the file system.  Each batch spawns one process for each of *)
(* its own files and no more, and has one completion notification for      *)
(* each of its own completed processes.  A batch that finds its output     *)
(* directory there, created by an earlier batch or before, makes no        *)
(* mkdirSync call, has no directory error and goes on to its loop.         *)
(***************************************************************************)
\* what batch b holds: everything but the thread and the file system
BatchState(b) ==
    <<pc[b], fileUris[b], apiKey[b], outputDir[b], i[b], procs[b],
      notifications[b], console[b], fsOps[b]>>

\* the next execution of the command: the first batch that has not started
NextBatch(b) == pc[b] = "idle" /\ \A c \in Batches : c < b => pc[c] # "idle"

\* batch b found its tests directory there
FoundDirectory(b) ==
    \E j \in Calls(b, "existsSync") : fsOps[b][j].ok

OverlappingBatchesState ==
    \A b \in Batches :
        /\ (running = 0 /\ NextBatch(b)) => ENABLED Invoke(b)
        /\ Len(procs[b]) <= NumFiles(b)
        /\ (pc[b] = "returned" /\ PassedPreconditions(b))
               => Len(procs[b]) = NumFiles(b)
        /\ \A k \in DOMAIN procs[b] : procs[b][k].argv[3] = <<Text(File(b, k))>>
        /\ Len(Completions(b)) = Cardinality(Done(b))
        /\ \A k \in Done(b) : CompletionsShown(b, k) = 1
        /\ FoundDirectory(b)
               => /\ Calls(b, "mkdirSync") = {}
                  /\ ShownText(b, "Failed to create tests directory") = {}
                  /\ PassedPreconditions(b)

OverlappingBatches ==
    /\ []OverlappingBatchesState
    /\ [][\A b \in Batches :
             BatchState(b)' # BatchState(b)
                 => \A c \in Batches \ {b} : BatchState(c)' = BatchState(c)]_vars

\* batch 1 created /a/tests for /a/Foo.py; batch 2 selected /a/Bar.Java,
\* found the directory there and spawned its process while the process of
\* batch 1 was in flight; both are in flight
OverlappingBatchesWitness ==
    /\ MaxBatches >= 2
    /\ Calls(1, "mkdirSync") # {}
    /\ InFlight(1) = {1}
    /\ File(1, 1).dir = "/a"
    /\ NumFiles(2) = 1
    /\ File(2, 1).dir = "/a"
    /\ FoundDirectory(2)
    /\ InFlight(2) = {1}

=============================================================================
